---- MODULE Spec2Model ----
(***************************************************************************)
(* Model of network_monitor.py: the probe-and-report loop of main() and    *)
(* the four probes it calls (get_public_ip, ping_google,                   *)
(* get_active_network_service, get_mac_address).                           *)
(*                                                                         *)
(* Text is modelled as a sequence of one-character strings, so that the    *)
(* code's substring tests, split() and strip() calls and float() parses    *)
(* are computed, character by character, as Python computes them.  The     *)
(* output of route, networksetup and ifconfig is held as the list          *)
(* str.splitlines() makes of it.  A float is held in thousandths.          *)
(***************************************************************************)
EXTENDS Integers, Sequences, FiniteSets

\* Number of cycles of the while-True loop that the model lets start.
MaxCycles == 2

\* Longest hardware-port listing (in lines) the environment answers with.
MaxLines == 3

\* requests.get(..., timeout=10)
HTTP_TIMEOUT == 10

\* time.sleep(30)
SLEEP_INTERVAL == 30

\* Python's None; no parsed text equals it (its element is not a character).
None ==
    <<"NoneType">>

\* A local of main() that no statement of the cycle has assigned yet.
Unset ==
    <<"unassigned">>

(***************************************************************************)
(* String literals of the source and the texts the environment answers     *)
(* with.                                                                   *)
(***************************************************************************)
\* 'TTL=' (line 84: 'TTL=')
STR_TTL ==
    <<"T", "T", "L", "=">>

\* 'time=' (lines 87, 94, 96: 'time=')
STR_time_eq ==
    <<"t", "i", "m", "e", "=">>

\* '时间=' (line 87: localized time marker)
STR_time_zh ==
    <<"时", "间", "=">>

\* 'interface:' (line 119)
STR_interface ==
    <<"i", "n", "t", "e", "r", "f", "a", "c", "e", ":">>

\* 'Hardware Port' (line 134)
STR_HardwarePort ==
    <<"H", "a", "r", "d", "w", "a", "r", "e", " ", "P", "o", "r", "t">>

\* 'Device' (line 136)
STR_Device ==
    <<"D", "e", "v", "i", "c", "e">>

\* 'ether' (line 167)
STR_ether ==
    <<"e", "t", "h", "e", "r">>

\* ':' (lines 120, 135, 137)
STR_colon ==
    <<":">>

\* ' ' (line 96)
STR_space ==
    <<" ">>

\* 'No Active Network' (line 124)
NoActiveNetwork ==
    <<"N", "o", " ", "A", "c", "t", "i", "v", "e", " ", "N", "e", "t", "w", "o", "r", "k">>

\* 'Unknown Network' (line 140)
UnknownNetwork ==
    <<"U", "n", "k", "n", "o", "w", "n", " ", "N", "e", "t", "w", "o", "r", "k">>

\* 'Error' (lines 143, 146)
ErrorNetwork ==
    <<"E", "r", "r", "o", "r">>

\* 'Unable to get IP' (line 69)
UnableToGetIP ==
    <<"U", "n", "a", "b", "l", "e", " ", "t", "o", " ", "g", "e", "t", " ", "I", "P">>

\* '203.0.113.7' (a response body of api.ipify.org)
BODY_IP ==
    <<"2", "0", "3", ".", "0", ".", "1", "1", "3", ".", "7">>

\* 'ttl=115 time=23.4 ms'
PING_posix_reply ==
    <<"t", "t", "l", "=", "1", "1", "5", " ", "t", "i", "m", "e", "=", "2", "3", ".", "4", " ", "m", "s">>

\* 'bytes=32 time=12ms TTL=115'
PING_win_reply ==
    <<"b", "y", "t", "e", "s", "=", "3", "2", " ", "t", "i", "m", "e", "=", "1", "2", "m", "s", " ", "T", "T", "L", "=", "1", "1", "5">>

\* 'bytes=32 time<1ms TTL=115'
PING_win_sub1ms ==
    <<"b", "y", "t", "e", "s", "=", "3", "2", " ", "t", "i", "m", "e", "<", "1", "m", "s", " ", "T", "T", "L", "=", "1", "1", "5">>

\* 'Destination host unreachable.'
PING_unreachable ==
    <<"D", "e", "s", "t", "i", "n", "a", "t", "i", "o", "n", " ", "h", "o", "s", "t", " ", "u", "n", "r", "e", "a", "c", "h", "a", "b", "l", "e", ".">>

\* 'gateway: 10.0.0.1'
LINE_gateway ==
    <<"g", "a", "t", "e", "w", "a", "y", ":", " ", "1", "0", ".", "0", ".", "0", ".", "1">>

\* '  interface: en0'
LINE_if_en0 ==
    <<" ", " ", "i", "n", "t", "e", "r", "f", "a", "c", "e", ":", " ", "e", "n", "0">>

\* '  interface: en1'
LINE_if_en1 ==
    <<" ", " ", "i", "n", "t", "e", "r", "f", "a", "c", "e", ":", " ", "e", "n", "1">>

\* 'interface:'
LINE_if_empty ==
    <<"i", "n", "t", "e", "r", "f", "a", "c", "e", ":">>

\* 'Hardware Port: Wi-Fi'
LINE_hp_wifi ==
    <<"H", "a", "r", "d", "w", "a", "r", "e", " ", "P", "o", "r", "t", ":", " ", "W", "i", "-", "F", "i">>

\* 'Hardware Port: LAN'
LINE_hp_lan ==
    <<"H", "a", "r", "d", "w", "a", "r", "e", " ", "P", "o", "r", "t", ":", " ", "L", "A", "N">>

\* 'Device: en0'
LINE_dev_en0 ==
    <<"D", "e", "v", "i", "c", "e", ":", " ", "e", "n", "0">>

\* 'Device: en10'
LINE_dev_en10 ==
    <<"D", "e", "v", "i", "c", "e", ":", " ", "e", "n", "1", "0">>

\* '\tether aa:bb:cc:dd:ee:ff'
LINE_ether ==
    <<"\t", "e", "t", "h", "e", "r", " ", "a", "a", ":", "b", "b", ":", "c", "c", ":", "d", "d", ":", "e", "e", ":", "f", "f">>

\* 'ether'
LINE_ether_bare ==
    <<"e", "t", "h", "e", "r">>

\* 'en0: flags=8863 mtu 1500'
LINE_flags ==
    <<"e", "n", "0", ":", " ", "f", "l", "a", "g", "s", "=", "8", "8", "6", "3", " ", "m", "t", "u", " ", "1", "5", "0", "0">>

(***************************************************************************)
(* Python's str operations.                                                *)
(***************************************************************************)
\* Characters str.strip() and str.split() treat as whitespace.
Whitespace ==
    {" ", "\t", "\n", "\r"}

Digits ==
    {"0", "1", "2", "3", "4", "5", "6", "7", "8", "9"}

DigitValue(ch) ==
    CASE ch = "0" -> 0 [] ch = "1" -> 1 [] ch = "2" -> 2 [] ch = "3" -> 3
      [] ch = "4" -> 4 [] ch = "5" -> 5 [] ch = "6" -> 6 [] ch = "7" -> 7
      [] ch = "8" -> 8 [] ch = "9" -> 9

\* sub occurs in s at index i
OccursAt(sub, s, i) ==
    /\ i >= 1
    /\ i + Len(sub) - 1 <= Len(s)
    /\ SubSeq(s, i, i + Len(sub) - 1) = sub

\* Python: sub in s
Contains(sub, s) ==
    \E i \in 1..(Len(s) + 1) : OccursAt(sub, s, i)

\* Python: s.find(sub) + 1 (0 when sub does not occur)
Find(sub, s) ==
    IF Contains(sub, s)
    THEN CHOOSE i \in 1..(Len(s) + 1) :
             /\ OccursAt(sub, s, i)
             /\ \A j \in 1..(i - 1) : ~OccursAt(sub, s, j)
    ELSE 0

\* Python: s.split(sep), sep non-empty
RECURSIVE Split(_, _)
Split(s, sep) ==
    LET i == Find(sep, s)
    IN  IF i = 0
        THEN <<s>>
        ELSE <<SubSeq(s, 1, i - 1)>> \o Split(SubSeq(s, i + Len(sep), Len(s)), sep)

\* Python: s.lstrip()
RECURSIVE LStrip(_)
LStrip(s) ==
    IF s # <<>> /\ Head(s) \in Whitespace THEN LStrip(Tail(s)) ELSE s

\* Python: s.rstrip()
RECURSIVE RStrip(_)
RStrip(s) ==
    IF s # <<>> /\ s[Len(s)] \in Whitespace
    THEN RStrip(SubSeq(s, 1, Len(s) - 1))
    ELSE s

\* Python: s.strip()
Strip(s) ==
    RStrip(LStrip(s))

\* Python: s.split() -- the words between runs of whitespace
RECURSIVE SplitWords(_)
SplitWords(s) ==
    LET t == LStrip(s)
        n == IF \E i \in 1..Len(t) : t[i] \in Whitespace
             THEN CHOOSE i \in 1..Len(t) :
                      /\ t[i] \in Whitespace
                      /\ \A j \in 1..(i - 1) : t[j] \notin Whitespace
             ELSE Len(t) + 1
    IN  IF t = <<>>
        THEN <<>>
        ELSE <<SubSeq(t, 1, n - 1)>> \o SplitWords(SubSeq(t, n, Len(t)))

\* The value of a string of digits.
RECURSIVE DigitsValue(_)
DigitsValue(s) ==
    IF s = <<>> THEN 0
    ELSE 10 * DigitsValue(SubSeq(s, 1, Len(s) - 1)) + DigitValue(s[Len(s)])

\* Python: float(s), for texts of digits and dots: [ok, value in thousandths];
\* ok is FALSE where float() raises ValueError.
ParseFloat(s) ==
    LET t     == Strip(s)
        dots  == {i \in 1..Len(t) : t[i] = "."}
        valid == /\ \A i \in 1..Len(t) : t[i] \in Digits \cup {"."}
                 /\ Cardinality(dots) <= 1
                 /\ \E i \in 1..Len(t) : t[i] \in Digits
        dot   == IF dots = {} THEN Len(t) + 1 ELSE CHOOSE i \in dots : TRUE
        whole == SubSeq(t, 1, dot - 1)
        frac  == SubSeq(t, dot + 1, Len(t))
        frac3 == SubSeq(frac \o <<"0", "0", "0">>, 1, 3)
    IN  IF valid
        THEN [ok |-> TRUE, value |-> 1000 * DigitsValue(whole) + DigitsValue(frac3)]
        ELSE [ok |-> FALSE, value |-> 0]

\* Mutant of Truthy: the test of the value is dropped.
Truthy_Always(x) ==
    TRUE

\* Python truthiness of a str-or-None value: None and '' are falsy.
Truthy(x) ==
    x # None /\ x # <<>>

(***************************************************************************)
(* The environment: what an external call can answer.                      *)
(*   ok           the call returned (exit status 0, or an HTTP 2xx body)   *)
(*   exit         the command exited non-zero (CalledProcessError)         *)
(*   missing      the command's binary does not exist (FileNotFoundError)  *)
(*   undecodable  the output is not UTF-8 (UnicodeDecodeError)             *)
(*   httperr      a non-2xx response (raise_for_status: HTTPError)         *)
(*   neterr       a network error (ConnectionError)                        *)
(*   hang         the command or service never responds                    *)
(***************************************************************************)
Resp(kind, out) ==
    [kind |-> kind, out |-> out]

\* The external call was not made in this cycle.
NotRun ==
    Resp("not run", <<>>)

HttpResponses ==
    {Resp("ok", BODY_IP), Resp("httperr", <<>>), Resp("neterr", <<>>),
     Resp("hang", <<>>)}

PingOutputs ==
    {PING_posix_reply, PING_win_reply, PING_win_sub1ms, PING_unreachable}

PingResponses ==
    {Resp("ok", o) : o \in PingOutputs}
        \cup {Resp(k, <<>>) : k \in {"exit", "missing", "undecodable", "hang"}}

RouteResponses ==
    {Resp("ok", <<LINE_gateway, LINE_if_en0>>), Resp("ok", <<LINE_if_en1>>),
     Resp("ok", <<LINE_gateway>>), Resp("ok", <<LINE_if_empty>>)}
        \cup {Resp(k, <<>>) : k \in {"exit", "missing", "undecodable", "hang"}}

HardwarePortLines ==
    {LINE_hp_wifi, LINE_hp_lan, LINE_dev_en0, LINE_dev_en10}

\* Every listing of at most MaxLines lines, no line of it repeated.
Listings ==
    UNION {{l \in [1..n -> HardwarePortLines] :
               \A i, j \in 1..n : l[i] = l[j] => i = j} : n \in 0..MaxLines}

NetworksetupResponses ==
    {Resp("ok", l) : l \in Listings}
        \cup {Resp(k, <<>>) : k \in {"exit", "missing", "hang"}}

IfconfigResponses ==
    {Resp("ok", <<LINE_flags, LINE_ether>>), Resp("ok", <<LINE_flags>>),
     Resp("ok", <<LINE_ether_bare>>)}
        \cup {Resp(k, <<>>) : k \in {"exit", "missing", "hang"}}

\* The timeout an external call is given: requests.get has timeout=10, and no
\* subprocess.check_output call passes a timeout.
CallTimeout(call) ==
    IF call = "http" THEN {HTTP_TIMEOUT} ELSE {}

\* The call waits for ever: the callee never responds and no timeout ends it.
WaitsForever(call, resp) ==
    resp.kind = "hang" /\ CallTimeout(call) = {}

(***************************************************************************)
(* Log records (logging.error / logging.info).                             *)
(***************************************************************************)
LogRecord(level, func, msg) ==
    [level |-> level, func |-> func, msg |-> msg]

\* What a probe hands back to the model: its return value, the records it
\* logged, the external commands it ran, the exception that left it ("none"
\* when it returned) and the call it waits on for ever ("none" when it does not).
Outcome(ret, log, ran, raised, blocked) ==
    [ret |-> ret, log |-> log, ran |-> ran, raised |-> raised, blocked |-> blocked]

(***************************************************************************)
(* get_public_ip                                                           *)
(***************************************************************************)
get_public_ip(resp) ==
    IF WaitsForever("http", resp)
    THEN Outcome(Unset, <<>>, {"http"}, "none", "http")
    ELSE IF resp.kind = "ok"
    THEN Outcome(resp.out, <<>>, {"http"}, "none", "none")
    ELSE Outcome(UnableToGetIP,
                 <<LogRecord("ERROR", "get_public_ip", "Error retrieving public IP")>>,
                 {"http"}, "none", "none")

(***************************************************************************)
(* ping_google                                                             *)
(***************************************************************************)
IsDigitOrDot(ch) ==
    ch \in Digits \/ ch = "."

HasTimeMarker(word) ==
    Contains(STR_time_zh, word) \/ Contains(STR_time_eq, word)

PingParseError ==
    LogRecord("ERROR", "ping_google", "Error parsing ping latency")

\* Lines 84-92 and 100: the Windows branch.
ParsePingWindows(output) ==
    LET time_part == SelectSeq(SplitWords(output), HasTimeMarker)
        parsed    == ParseFloat(SelectSeq(time_part[1], IsDigitOrDot))
    IN  IF Contains(STR_TTL, output) /\ time_part # <<>>
        THEN IF parsed.ok
             THEN [ret |-> <<TRUE, parsed.value>>, log |-> <<>>]
             ELSE [ret |-> <<TRUE, 0>>, log |-> <<PingParseError>>]
        ELSE [ret |-> <<TRUE, 0>>, log |-> <<>>]

\* Lines 94-100: the POSIX branch.
ParsePingPosix(output) ==
    LET after    == Split(output, STR_time_eq)
        time_str == Strip(Split(after[Len(after)], STR_space)[1])
        parsed   == ParseFloat(time_str)
    IN  IF Contains(STR_time_eq, output)
        THEN IF parsed.ok
             THEN [ret |-> <<TRUE, parsed.value>>, log |-> <<>>]
             ELSE [ret |-> <<TRUE, 0>>, log |-> <<PingParseError>>]
        ELSE [ret |-> <<TRUE, 0>>, log |-> <<>>]

ping_google(system, resp) ==
    LET parsed == IF system = "windows"
                  THEN ParsePingWindows(resp.out)
                  ELSE ParsePingPosix(resp.out)
    IN  CASE WaitsForever("ping", resp) ->
                 Outcome(<<FALSE, 0>>, <<>>, {"ping"}, "none", "ping")
          [] resp.kind = "ok" ->
                 Outcome(parsed.ret, parsed.log, {"ping"}, "none", "none")
          [] resp.kind = "exit" ->
                 Outcome(<<FALSE, 0>>,
                         <<LogRecord("ERROR", "ping_google", "Ping failed")>>,
                         {"ping"}, "none", "none")
          [] resp.kind = "missing" ->
                 Outcome(<<FALSE, 0>>, <<>>, {"ping"}, "FileNotFoundError", "none")
          [] OTHER ->
                 Outcome(<<FALSE, 0>>, <<>>, {"ping"}, "UnicodeDecodeError", "none")

(***************************************************************************)
(* get_active_network_service                                              *)
(***************************************************************************)
\* Lines 117-121: the value after the first colon of the first line that
\* contains "interface:"; None when no line does.
RECURSIVE RouteInterface(_)
RouteInterface(lines) ==
    IF lines = <<>>
    THEN None
    ELSE IF Contains(STR_interface, Head(lines))
    THEN Strip(Split(Head(lines), STR_colon)[2])
    ELSE RouteInterface(Tail(lines))

ServiceDict(network_name, device_name) ==
    [network_name |-> network_name, device_name |-> device_name]

\* Lines 130-140: the scan of the hardware-port listing, from the lines left
\* and the label of the last "Hardware Port" line seen.  [raised, ret]:
\* raised when line.split(":")[1] finds no colon (IndexError).
RECURSIVE HardwarePortScan(_, _, _)
HardwarePortScan(lines, current_port, active_interface) ==
    LET line  == Head(lines)
        parts == Split(line, STR_colon)
    IN  IF lines = <<>>
        THEN [raised |-> FALSE, ret |-> ServiceDict(UnknownNetwork, None)]
        ELSE IF Contains(STR_HardwarePort, line)
        THEN IF Len(parts) < 2
             THEN [raised |-> TRUE, ret |-> ServiceDict(None, None)]
             ELSE HardwarePortScan(Tail(lines), Strip(parts[2]), active_interface)
        ELSE IF Contains(STR_Device, line) /\ Contains(active_interface, line)
        THEN IF Len(parts) < 2
             THEN [raised |-> TRUE, ret |-> ServiceDict(None, None)]
             ELSE [raised |-> FALSE, ret |-> ServiceDict(current_port, Strip(parts[2]))]
        ELSE HardwarePortScan(Tail(lines), current_port, active_interface)

\* Lines 141-146: what either except clause returns.
ServiceError(exception) ==
    [network_name |-> ErrorNetwork, device_name |-> None, error |-> exception]

ServiceErrorLog(kind) ==
    IF kind = "exit"
    THEN <<LogRecord("ERROR", "get_active_network_service",
                     "Error retrieving network service")>>
    ELSE <<LogRecord("ERROR", "get_active_network_service",
                     "Unexpected error retrieving network service")>>

ExceptionOf(kind) ==
    CASE kind = "exit" -> "CalledProcessError"
      [] kind = "missing" -> "FileNotFoundError"
      [] kind = "undecodable" -> "UnicodeDecodeError"
      [] OTHER -> "IndexError"

get_active_network_service(route, networksetup) ==
    LET active_interface == RouteInterface(route.out)
        scan == HardwarePortScan(networksetup.out, None, active_interface)
    IN  IF WaitsForever("route", route)
        THEN Outcome(ServiceDict(Unset, Unset), <<>>, {"route"}, "none", "route")
        ELSE IF route.kind # "ok"
        THEN Outcome(ServiceError(ExceptionOf(route.kind)),
                     ServiceErrorLog(route.kind), {"route"}, "none", "none")
        ELSE IF ~Truthy(active_interface)
        THEN Outcome(ServiceDict(NoActiveNetwork, None), <<>>, {"route"},
                     "none", "none")
        ELSE IF WaitsForever("networksetup", networksetup)
        THEN Outcome(ServiceDict(Unset, Unset), <<>>, {"route", "networksetup"},
                     "none", "networksetup")
        ELSE IF networksetup.kind # "ok"
        THEN Outcome(ServiceError(ExceptionOf(networksetup.kind)),
                     ServiceErrorLog(networksetup.kind),
                     {"route", "networksetup"}, "none", "none")
        ELSE IF scan.raised
        THEN Outcome(ServiceError("IndexError"), ServiceErrorLog("index"),
                     {"route", "networksetup"}, "none", "none")
        ELSE Outcome(scan.ret, <<>>, {"route", "networksetup"}, "none", "none")

(***************************************************************************)
(* get_mac_address                                                         *)
(***************************************************************************)
\* Lines 166-169: the second word of the first line that contains "ether".
\* [raised, ret]: raised when that line has one word only (IndexError).
RECURSIVE EtherScan(_)
EtherScan(lines) ==
    LET words == SplitWords(Head(lines))
    IN  IF lines = <<>>
        THEN [raised |-> FALSE, ret |-> None]
        ELSE IF Contains(STR_ether, Head(lines))
        THEN IF Len(words) < 2
             THEN [raised |-> TRUE, ret |-> None]
             ELSE [raised |-> FALSE, ret |-> Strip(words[2])]
        ELSE EtherScan(Tail(lines))

MacErrorLog(kind) ==
    IF kind = "exit"
    THEN <<LogRecord("ERROR", "get_mac_address", "Error getting MAC address")>>
    ELSE <<LogRecord("ERROR", "get_mac_address",
                     "Unexpected error getting MAC address")>>

get_mac_address(device_name, ifconfig) ==
    LET scan == EtherScan(ifconfig.out)
    IN  IF ~Truthy(device_name)
        THEN Outcome(None, <<>>, {}, "none", "none")
        ELSE IF WaitsForever("ifconfig", ifconfig)
        THEN Outcome(Unset, <<>>, {"ifconfig"}, "none", "ifconfig")
        ELSE IF ifconfig.kind # "ok"
        THEN Outcome(None, MacErrorLog(ifconfig.kind), {"ifconfig"}, "none", "none")
        ELSE IF scan.raised
        THEN Outcome(None, MacErrorLog("index"), {"ifconfig"}, "none", "none")
        ELSE Outcome(scan.ret, <<>>, {"ifconfig"}, "none", "none")

(***************************************************************************)
(* main(): the monitor loop.                                               *)
(***************************************************************************)
VARIABLES
    system,        \* platform.system().lower()
    pc,            \* the statement of main() that runs next
    cycles,        \* iterations of the while loop started so far
    steps,         \* the steps of the current cycle, in the order they started
    ext,           \* what each external call answered in the current cycle
    ran,           \* the external calls made in the current cycle
    records,       \* log records emitted since the current cycle started
    current_time,  \* line 206
    public_ip,     \* line 207
    is_connected,  \* line 208
    latency,       \* line 208, in thousandths of a millisecond
    service,       \* line 184: the dict get_active_network_service returned
    network_info,  \* line 209: the dict get_active_network_info returned
    log_entry,     \* lines 215-220
    lines,         \* cycle summary lines logged so far (line 222)
    stops,         \* "Monitoring stopped by user." records logged so far
    blocked,       \* the external call the process waits on for ever, or "none"
    fault,         \* the exception that left main() unhandled, or "none"
    cancelled_at,  \* the statement that KeyboardInterrupt interrupted, or "none"
    timer          \* seconds time.sleep was called with, while sleeping

vars ==
    <<system, pc, cycles, steps, ext, ran, records, current_time, public_ip,
      is_connected, latency, service, network_info, log_entry, lines, stops,
      blocked, fault, cancelled_at, timer>>

\* The statements of the try block, lines 205-223.
LoopStatements ==
    {"timestamp", "public_ip", "ping", "service", "mac", "report", "sleep"}

\* Mutant of NextStatement: the connectivity probe is called after the
\* active-interface probe.
NextStatement_PingAfterService(p) ==
    CASE p = "timestamp" -> "public_ip"
      [] p = "public_ip" -> "service"
      [] p = "service"   -> "ping"
      [] p = "ping"      -> "mac"
      [] p = "mac"       -> "report"
      [] p = "report"    -> "sleep"
      [] p = "sleep"     -> "timestamp"

\* The statement that follows statement p in the loop body (lines 206-223;
\* line 209 is get_active_network_info, lines 184 and 185).
NextStatement(p) ==
    CASE p = "timestamp" -> "public_ip"
      [] p = "public_ip" -> "ping"
      [] p = "ping"      -> "service"
      [] p = "service"   -> "mac"
      [] p = "mac"       -> "report"
      [] p = "report"    -> "sleep"
      [] p = "sleep"     -> "timestamp"

\* The dict of line 209 before get_active_network_info has returned.
InfoUnset ==
    [network_name |-> Unset, device_name |-> Unset, mac_address |-> Unset]

NoCalls ==
    [http |-> NotRun, ping |-> NotRun, route |-> NotRun, networksetup |-> NotRun,
     ifconfig |-> NotRun]

\* An f-string renders None as the text 'None'.
FormatValue(x) ==
    IF x = None THEN <<"N", "o", "n", "e">> ELSE x

\* Mutant of FormatLogEntry: the latency field is appended whatever the
\* connectivity.
FormatLogEntry_AlwaysLatency(time, network_name, device_name, mac_address, ip, connected, ms) ==
    <<time,
      "Network", FormatValue(network_name),
      "Device Name", FormatValue(device_name),
      "MAC Address", FormatValue(mac_address),
      "IP", ip,
      "Status", IF connected THEN "Connected" ELSE "Disconnected",
      "Latency", ms, "ms">>

\* Lines 213-220: the fields of the cycle's log line, in order.
FormatLogEntry(time, network_name, device_name, mac_address, ip, connected, ms) ==
    LET status == IF connected THEN "Connected" ELSE "Disconnected"
        entry  == <<time,
                    "Network", FormatValue(network_name),
                    "Device Name", FormatValue(device_name),
                    "MAC Address", FormatValue(mac_address),
                    "IP", ip,
                    "Status", status>>
    IN  IF connected THEN entry \o <<"Latency", ms, "ms">> ELSE entry

\* The locals of main() at the start of an iteration: every one of them is
\* assigned again before the iteration reads it.
CycleLocalsUnset ==
    /\ steps' = <<>>
    /\ ext' = NoCalls
    /\ ran' = {}
    /\ records' = <<>>
    /\ public_ip' = Unset
    /\ is_connected' = FALSE
    /\ latency' = 0
    /\ service' = ServiceDict(Unset, Unset)
    /\ network_info' = InfoUnset
    /\ log_entry' = <<>>

Init ==
    /\ system \in {"windows", "posix"}
    /\ pc = "timestamp"
    /\ cycles = 0
    /\ steps = <<>>
    /\ ext = NoCalls
    /\ ran = {}
    /\ records = <<>>
    /\ current_time = 0
    /\ public_ip = Unset
    /\ is_connected = FALSE
    /\ latency = 0
    /\ service = ServiceDict(Unset, Unset)
    /\ network_info = InfoUnset
    /\ log_entry = <<>>
    /\ lines = 0
    /\ stops = 0
    /\ blocked = "none"
    /\ fault = "none"
    /\ cancelled_at = "none"
    /\ timer = 0

Running ==
    pc \in LoopStatements /\ blocked = "none"

\* Line 206: current_time = datetime.now().strftime(...); the clock reading is
\* the ordinal of the cycle.
CaptureTime ==
    /\ Running
    /\ pc = "timestamp"
    /\ cycles < MaxCycles
    /\ cycles' = cycles + 1
    /\ current_time' = cycles + 1
    /\ steps' = Append(steps, "timestamp")
    /\ pc' = NextStatement(pc)
    /\ UNCHANGED <<system, ext, ran, records, public_ip, is_connected, latency,
                   service, network_info, log_entry, lines, stops, blocked, fault,
                   cancelled_at, timer>>

\* Line 207: public_ip = get_public_ip()
GetPublicIp ==
    /\ Running
    /\ pc = "public_ip"
    /\ \E resp \in HttpResponses :
          LET r == get_public_ip(resp)
          IN  /\ ext' = [ext EXCEPT !.http = resp]
              /\ ran' = ran \cup r.ran
              /\ records' = records \o r.log
              /\ steps' = Append(steps, "public_ip")
              /\ blocked' = r.blocked
              /\ IF r.blocked # "none"
                 THEN UNCHANGED <<pc, public_ip>>
                 ELSE /\ public_ip' = r.ret
                      /\ pc' = NextStatement(pc)
    /\ UNCHANGED <<system, cycles, current_time, is_connected, latency, service,
                   network_info, log_entry, lines, stops, fault, cancelled_at, timer>>

\* Line 208: is_connected, latency = ping_google().  An exception that
\* ping_google does not catch is not caught by main() either (line 224
\* catches KeyboardInterrupt only): the process ends with a traceback.
PingGoogle ==
    /\ Running
    /\ pc = "ping"
    /\ \E resp \in PingResponses :
          LET r == ping_google(system, resp)
          IN  /\ ext' = [ext EXCEPT !.ping = resp]
              /\ ran' = ran \cup r.ran
              /\ records' = records \o r.log
              /\ steps' = Append(steps, "ping")
              /\ blocked' = r.blocked
              /\ fault' = r.raised
              /\ IF r.blocked # "none"
                 THEN UNCHANGED <<pc, is_connected, latency>>
                 ELSE IF r.raised # "none"
                 THEN /\ pc' = "crashed"
                      /\ UNCHANGED <<is_connected, latency>>
                 ELSE /\ is_connected' = r.ret[1]
                      /\ latency' = r.ret[2]
                      /\ pc' = NextStatement(pc)
    /\ UNCHANGED <<system, cycles, current_time, public_ip, service, network_info,
                   log_entry, lines, stops, cancelled_at, timer>>

\* Line 184: network_info = get_active_network_service()
GetActiveNetworkService ==
    /\ Running
    /\ pc = "service"
    /\ \E route \in RouteResponses, networksetup \in NetworksetupResponses \cup {NotRun} :
          LET r == get_active_network_service(route, networksetup)
          IN  /\ (networksetup # NotRun) <=> ("networksetup" \in r.ran)
              /\ ext' = [ext EXCEPT !.route = route, !.networksetup = networksetup]
              /\ ran' = ran \cup r.ran
              /\ records' = records \o r.log
              /\ steps' = Append(steps, "service")
              /\ blocked' = r.blocked
              /\ IF r.blocked # "none"
                 THEN UNCHANGED <<pc, service>>
                 ELSE /\ service' = r.ret
                      /\ pc' = NextStatement(pc)
    /\ UNCHANGED <<system, cycles, current_time, public_ip, is_connected, latency,
                   network_info, log_entry, lines, stops, fault, cancelled_at, timer>>

\* Lines 185-191: get_mac_address is called only with a truthy device name;
\* get_active_network_info then returns the three-key dict.
GetMacAddress ==
    /\ Running
    /\ pc = "mac"
    /\ \E ifconfig \in IfconfigResponses \cup {NotRun} :
          LET called == Truthy(service.device_name)
              r == IF called
                   THEN get_mac_address(service.device_name, ifconfig)
                   ELSE Outcome(None, <<>>, {}, "none", "none")
          IN  /\ (ifconfig # NotRun) <=> ("ifconfig" \in r.ran)
              /\ ext' = [ext EXCEPT !.ifconfig = ifconfig]
              /\ ran' = ran \cup r.ran
              /\ records' = records \o r.log
              /\ steps' = IF called THEN Append(steps, "mac") ELSE steps
              /\ blocked' = r.blocked
              /\ IF r.blocked # "none"
                 THEN UNCHANGED <<pc, network_info>>
                 ELSE /\ network_info' = [network_name |-> service.network_name,
                                          device_name |-> service.device_name,
                                          mac_address |-> r.ret]
                      /\ pc' = NextStatement(pc)
    /\ UNCHANGED <<system, cycles, current_time, public_ip, is_connected, latency,
                   service, log_entry, lines, stops, fault, cancelled_at, timer>>

\* Lines 210-223: build the log line, log it, and call time.sleep(30).
Report ==
    /\ Running
    /\ pc = "report"
    /\ log_entry' = FormatLogEntry(current_time, network_info.network_name,
                                   network_info.device_name,
                                   network_info.mac_address, public_ip,
                                   is_connected, latency)
    /\ records' = Append(records, LogRecord("INFO", "main", "log_entry"))
    /\ lines' = lines + 1
    /\ steps' = steps \o <<"report", "sleep">>
    /\ timer' = SLEEP_INTERVAL
    /\ pc' = NextStatement(pc)
    /\ UNCHANGED <<system, cycles, ext, ran, current_time, public_ip, is_connected,
                   latency, service, network_info, stops, blocked, fault,
                   cancelled_at>>

\* Line 223 returns: the sleep is over and the next iteration begins.
Wake ==
    /\ Running
    /\ pc = "sleep"
    /\ timer' = 0
    /\ pc' = NextStatement(pc)
    /\ CycleLocalsUnset
    /\ UNCHANGED <<system, cycles, current_time, lines, stops, blocked, fault,
                   cancelled_at>>

\* Mutant of Interrupt: the handler logs nothing.
Interrupt_NoStopMessage ==
    /\ pc \in LoopStatements
    /\ cancelled_at' = pc
    /\ blocked' = "none"
    /\ timer' = 0
    /\ pc' = "stopped"
    /\ UNCHANGED <<system, cycles, steps, ext, ran, records, current_time, public_ip,
                   is_connected, latency, service, network_info, log_entry, lines,
                   stops, fault>>

\* Lines 224-225: KeyboardInterrupt is raised in whatever statement of the try
\* block is running, a blocking external call and the sleep included.
Interrupt ==
    /\ pc \in LoopStatements
    /\ cancelled_at' = pc
    /\ records' = Append(records, LogRecord("INFO", "main", "Monitoring stopped by user."))
    /\ stops' = stops + 1
    /\ blocked' = "none"
    /\ timer' = 0
    /\ pc' = "stopped"
    /\ UNCHANGED <<system, cycles, steps, ext, ran, current_time, public_ip,
                   is_connected, latency, service, network_info, log_entry, lines,
                   fault>>

Next ==
    \/ CaptureTime
    \/ GetPublicIp
    \/ PingGoogle
    \/ GetActiveNetworkService
    \/ GetMacAddress
    \/ Report
    \/ Wake
    \/ Interrupt

Spec ==
    Init /\ [][Next]_vars

(***************************************************************************)
(* Properties.                                                             *)
(***************************************************************************)
IsPrefix(s, t) ==
    Len(s) <= Len(t) /\ SubSeq(t, 1, Len(s)) = s

\* ping_google returned in the current cycle (it neither raised nor blocks).
PingReturned ==
    ext.ping.kind \in {"ok", "exit"}

\* The output of the ping command carries the platform's reply marker.
ReplyMarkerPresent ==
    IF system = "windows"
    THEN Contains(STR_TTL, ext.ping.out)
    ELSE Contains(STR_time_eq, ext.ping.out)

\* The log line ends with the latency field.
HasLatencySuffix ==
    Len(log_entry) > 11 /\ log_entry[12] = "Latency"

\* A diagnostic record of probe func is among the records of the cycle that
\* precede its summary line.
DiagnosticBeforeSummary(func) ==
    \E i \in 1..Len(records) :
        /\ records[i].level = "ERROR"
        /\ records[i].func = func
        /\ \A j \in 1..i : records[j].msg # "log_entry"

\* C1: the loop leaves RUNNING only on cancellation: no failure of a probe's
\* external call (a missing ping binary included) ever ends the process.
C1_LoopLeftOnlyByCancellation ==
    pc \notin LoopStatements =>
        /\ pc = "stopped"
        /\ cancelled_at # "none"
        /\ fault = "none"

\* C2: the record a cycle reports has a defined value in every field; the
\* network label is a port label or a marker, never absent.
C2_SnapshotFullyPopulated ==
    pc = "sleep" =>
        /\ network_info.network_name \notin {None, Unset}
        /\ public_ip \notin {None, Unset}
        /\ is_connected \in BOOLEAN
        /\ latency \in Nat
        /\ network_info.device_name # Unset
        /\ network_info.mac_address # Unset

\* The order of a cycle's steps as C3 states it, with and without the MAC probe.
ClaimedOrder(with_mac) ==
    <<"timestamp", "ping", "public_ip", "service">>
        \o (IF with_mac THEN <<"mac">> ELSE <<>>) \o <<"report", "sleep">>

\* The order of a cycle's steps with the public-IP probe before the
\* connectivity probe.
AmendedOrder(with_mac) ==
    <<"timestamp", "public_ip", "ping", "service">>
        \o (IF with_mac THEN <<"mac">> ELSE <<>>) \o <<"report", "sleep">>

\* C3 as stated: in every cycle the steps start in the order timestamp,
\* connectivity probe, public-IP probe, active-interface probe, MAC probe,
\* report, sleep.
C3_ClaimedStepOrder ==
    \E with_mac \in BOOLEAN : IsPrefix(steps, ClaimedOrder(with_mac))

\* C3 amended: in every cycle the steps start in the order timestamp, public-IP
\* probe, connectivity probe, active-interface probe, MAC probe (when a device
\* was found), report, sleep of 30 seconds; and the steps of a cycle are
\* cleared for the next one only when the cycle has reported and its sleep
\* is over.
C3_StepOrder ==
    [][/\ \E with_mac \in BOOLEAN : IsPrefix(steps', AmendedOrder(with_mac))
       /\ ("sleep" \in {steps'[i] : i \in 1..Len(steps')}) =>
              (timer' = SLEEP_INTERVAL \/ pc' = "stopped")
       /\ (steps # <<>> /\ ~IsPrefix(steps, steps')) =>
              /\ steps' = <<>>
              /\ pc = "sleep"
              /\ timer = SLEEP_INTERVAL
              /\ \E with_mac \in BOOLEAN : steps = AmendedOrder(with_mac)]_vars

\* C3 witness: a second cycle ran every step, the MAC probe included, and sleeps.
C3_Witness ==
    /\ pc = "sleep"
    /\ cycles = 2
    /\ steps = AmendedOrder(TRUE)

\* C4: a ping output without the platform's reply marker, or a non-zero exit,
\* gives (false, 0.0); reachable is true only with the marker in the output.
C4_NoMarkerMeansUnreachable ==
    PingReturned =>
        /\ (ext.ping.kind = "exit" \/ ~ReplyMarkerPresent) =>
               (is_connected = FALSE /\ latency = 0)
        /\ is_connected => ReplyMarkerPresent

\* C5: ifconfig is never run in a cycle whose active-interface probe gave no
\* device; and when the default-route command fails, the label is "Error", the
\* device and the MAC address are absent and ifconfig is not run.
C5_NoIfconfigWithoutDevice ==
    /\ "ifconfig" \in ran => service.device_name \notin {None, Unset, <<>>}
    /\ ext.route.kind \in {"exit", "missing", "undecodable"} =>
           /\ service = ServiceError(ExceptionOf(ext.route.kind))
           /\ service.network_name = ErrorNetwork
           /\ service.device_name = None
           /\ "ifconfig" \notin ran
           /\ network_info # InfoUnset =>
                  /\ network_info.network_name = ErrorNetwork
                  /\ network_info.device_name = None
                  /\ network_info.mac_address = None

\* C5 witness: a cycle whose route command was missing has reported.
C5_Witness ==
    /\ pc = "sleep"
    /\ ext.route.kind = "missing"
    /\ network_info.network_name = ErrorNetwork
    /\ "ifconfig" \notin ran

C7_NoCallWaitsForever ==
    blocked = "none"

\* C8: a probe that put a placeholder in the reported record logged a
\* diagnostic record in the same cycle, before the summary line.
C8_PlaceholdersAreLogged ==
    pc = "sleep" =>
        /\ public_ip = UnableToGetIP => DiagnosticBeforeSummary("get_public_ip")
        /\ latency = 0 => DiagnosticBeforeSummary("ping_google")
        /\ network_info.network_name \in {NoActiveNetwork, UnknownNetwork, ErrorNetwork}
               => DiagnosticBeforeSummary("get_active_network_service")
        /\ (Truthy(network_info.device_name) /\ network_info.mac_address = None)
               => DiagnosticBeforeSummary("get_mac_address")

PairedDeviceLines(listing, target) ==
    {j \in 1..Len(listing) :
        /\ Contains(STR_Device, listing[j])
        /\ Contains(target, listing[j])
        /\ \E i \in 1..(j - 1) : Contains(STR_HardwarePort, listing[i])}

\* What C10 says the scan returns.
ClaimedScanResult(listing, target) ==
    LET paired == PairedDeviceLines(listing, target)
        j == CHOOSE k \in paired : \A m \in paired : k <= m
        i == CHOOSE k \in 1..(j - 1) :
                 /\ Contains(STR_HardwarePort, listing[k])
                 /\ \A m \in (k + 1)..(j - 1) : ~Contains(STR_HardwarePort, listing[m])
    IN  IF paired = {}
        THEN ServiceDict(UnknownNetwork, None)
        ELSE ServiceDict(Strip(Split(listing[i], STR_colon)[2]),
                         Strip(Split(listing[j], STR_colon)[2]))

\* C10: the scan returns the label of the last "Hardware Port" line before the
\* first "Device" line that matches the target and follows a "Hardware Port"
\* line, with that device; without such a pairing it returns "Unknown Network"
\* and no device.
C10_ScanReturnsFirstPairing ==
    (ext.networksetup.kind = "ok" /\ blocked = "none") =>
        service = ClaimedScanResult(ext.networksetup.out, RouteInterface(ext.route.out))

====
